---- MODULE Spec2Model ----
(***************************************************************************)
(* dupscan: scan a directory tree and report duplicate files.              *)
(*                                                                         *)
(* The model follows src/dupscan.c function by function.  The C functions  *)
(* are operators over a machine record m (the global variables, the heap   *)
(* of struct entry slots, the standard output and the calls made so far),  *)
(* so that one action is one whole call of process() with everything it    *)
(* calls.  Pointers are slot numbers of the heap, NULL is 0.  A path is    *)
(* the ordinal of the directory entry in traversal order (paths are unique *)
(* within one scan), and the file system is the sequence fs of the entries *)
(* met so far.                                                             *)
(***************************************************************************)
EXTENDS Integers, Sequences, FiniteSets, TLC

HASH_SIZE == 1049

NULL == 0

\* Number of directory entries one scan meets.
MaxEntries == 3

\* Number of entry_alloc/entry_free calls of the allocator on its own.
MaxAllocOps == 6

\* File sizes: 1 and HASH_SIZE + 1 share a bucket, 2 has its own.
Sizes == {1, 2, HASH_SIZE + 1}

\* File contents (what the digest is a function of).
Contents == {1, 2}

\* What malloc'ed storage may hold before it is written.
Junk == {0, 9}

Kinds == {"reg", "dir", "lnk", "other"}

\* The fallible library call that fails during one step, if any.
Faults == {"none", "malloc", "lstat", "entry_alloc", "opendir", "hash1", "hash2"}

VARIABLES
    pc,          \* "main": before main(); "scan": in the readdir loop; "exit"
    exit_code,   \* argument of exit(), meaningful when pc = "exit"
    verbose,     \* int verbose
    no_effect,   \* int no_effect
    entry_list,  \* struct entry *entry_list[HASH_SIZE]
    freelist,    \* struct entry *freelist
    heap,        \* the struct entry slots obtained from malloc, by slot number
    depth,       \* number of nested scan_dups() calls (open directories)
    fs,          \* directory entries lstat'ed so far, in traversal order
    trace,       \* output lines and calls, in program order
    held         \* entries handed out by entry_alloc and still with the caller

vars == <<pc, exit_code, verbose, no_effect, entry_list, freelist, heap, depth,
          fs, trace, held>>

----------------------------------------------------------------------------
(* Helpers *)

\* entry_list is held as the map of the buckets written so far; every other
\* element of the array is NULL (a zeroed global, set to NULL again by main).
NoEntries == [i \in {} |-> NULL]

BucketHead(tbl, i) == IF i \in DOMAIN tbl THEN tbl[i] ELSE NULL

SetBucket(tbl, i, ep) ==
    [j \in (DOMAIN tbl) \cup {i} |-> IF j = i THEN ep ELSE tbl[j]]

Ev(op, a, b) == [op |-> op, a |-> a, b |-> b]

Emit(m, op, a, b) == [m EXCEPT !.trace = Append(@, Ev(op, a, b))]

\* printf under "if (verbose)"
VPrint(m, op, a, b) == IF m.verbose = 1 THEN Emit(m, op, a, b) ELSE m

\* exit(code)
Exit(m, code) == [m EXCEPT !.pc = "exit", !.exit_code = code]

Exited(m) == m.pc = "exit"

\* perror or fprintf(stderr, ...) for the entry path, then exit(1)
Fail(m, op, path) == Exit(Emit(m, op, path, 0), 1)

\* Slip: the output line is cut at a blank that comes before the digest, so
\* that every file gets the same string.
DigestTruncated(content) == 100 + (content - content)

\* The first word of the line HASH_COMMAND prints (sha256sum: the digest
\* comes first): one digest per content, never NULL.
Digest(content) == 100 + content

\* struct stat of the directory entry with ordinal path
Stat(m, path) ==
    [st_size |-> m.fs[path].size, st_nlink |-> 1, st_dev |-> 1, st_ino |-> path]

----------------------------------------------------------------------------
(* entry_alloc, entry_free *)

\* malloc'ed storage, not yet written
RawEntry(junk) ==
    [next |-> junk, path |-> junk, size |-> junk, hash |-> junk,
     nlinks |-> junk, device |-> junk, inode |-> junk]

\* Slip: the free list is never consulted.
FreelistEmptyAlways(fl) == TRUE

FreelistEmpty(fl) == fl = NULL

\* Slip: the size of the slot is not reset.
entry_alloc_keep_size(m, name, junk) ==
    LET got ==
            IF ~FreelistEmpty(m.freelist)
            THEN [m |-> Emit([m EXCEPT !.freelist = m.heap[m.freelist].next],
                             "reuse", m.freelist, 0),
                  ep |-> m.freelist]
            ELSE IF m.fault = "entry_alloc"
                 THEN [m |-> Fail(m, "err_alloc", name), ep |-> NULL]
                 ELSE [m |-> Emit([m EXCEPT !.heap = Append(@, RawEntry(junk))],
                                  "malloc", Len(m.heap) + 1, 0),
                       ep |-> Len(m.heap) + 1]
    IN  IF Exited(got.m)
        THEN got
        ELSE [m |-> [got.m EXCEPT !.heap[got.ep].next = NULL,
                                  !.heap[got.ep].path = name,
                                  !.heap[got.ep].hash = NULL],
              ep |-> got.ep]

\* Slip: the hash of the slot is not reset.
entry_alloc_keep_hash(m, name, junk) ==
    LET got ==
            IF ~FreelistEmpty(m.freelist)
            THEN [m |-> Emit([m EXCEPT !.freelist = m.heap[m.freelist].next],
                             "reuse", m.freelist, 0),
                  ep |-> m.freelist]
            ELSE IF m.fault = "entry_alloc"
                 THEN [m |-> Fail(m, "err_alloc", name), ep |-> NULL]
                 ELSE [m |-> Emit([m EXCEPT !.heap = Append(@, RawEntry(junk))],
                                  "malloc", Len(m.heap) + 1, 0),
                       ep |-> Len(m.heap) + 1]
    IN  IF Exited(got.m)
        THEN got
        ELSE [m |-> [got.m EXCEPT !.heap[got.ep].next = NULL,
                                  !.heap[got.ep].path = name,
                                  !.heap[got.ep].size = 0],
              ep |-> got.ep]

\* Returns [m, ep]; m has exited when malloc fails.
entry_alloc(m, name, junk) ==
    LET got ==
            IF ~FreelistEmpty(m.freelist)
            THEN [m |-> Emit([m EXCEPT !.freelist = m.heap[m.freelist].next],
                             "reuse", m.freelist, 0),
                  ep |-> m.freelist]
            ELSE IF m.fault = "entry_alloc"
                 THEN [m |-> Fail(m, "err_alloc", name), ep |-> NULL]
                 ELSE [m |-> Emit([m EXCEPT !.heap = Append(@, RawEntry(junk))],
                                  "malloc", Len(m.heap) + 1, 0),
                       ep |-> Len(m.heap) + 1]
    IN  IF Exited(got.m)
        THEN got
        ELSE [m |-> [got.m EXCEPT !.heap[got.ep].next = NULL,
                                  !.heap[got.ep].path = name,
                                  !.heap[got.ep].size = 0,
                                  !.heap[got.ep].hash = NULL],
              ep |-> got.ep]

entry_free(m, ep) ==
    LET m1 == Emit(m, "free", m.heap[ep].path, ep)
    IN  [m1 EXCEPT !.heap[ep].path = NULL,
                   !.heap[ep].hash = NULL,
                   !.heap[ep].next = m.freelist,
                   !.freelist = ep]

----------------------------------------------------------------------------
(* generate_hash *)

\* Slip: the failure is reported and generate_hash returns.
generate_hash_no_exit(m, ep) ==
    LET m1 == Emit(m, "hash", m.heap[ep].path, ep)
    IN  IF m1.fault = "hash1"
        THEN Emit(m1, "err_hash", m.heap[ep].path, 0)
        ELSE [m1 EXCEPT !.heap[ep].hash = Digest(m.fs[m.heap[ep].path].content),
                        !.fault = IF @ = "hash2" THEN "hash1" ELSE @]

generate_hash(m, ep) ==
    LET m1 == Emit(m, "hash", m.heap[ep].path, ep)
    IN  IF m1.fault = "hash1"
        THEN Fail(m1, "err_hash", m.heap[ep].path)
        ELSE [m1 EXCEPT !.heap[ep].hash = Digest(m.fs[m.heap[ep].path].content),
                        !.fault = IF @ = "hash2" THEN "hash1" ELSE @]

----------------------------------------------------------------------------
(* find_entry *)

\* Slip: the bucket numbers are compared instead of the sizes.
SizeMatchBucket(a, b) == a % HASH_SIZE = b % HASH_SIZE

SizeMatch(a, b) == a = b

\* Slip: strcmp's result is ignored.
HashMatchAlways(h1, h2) == TRUE

\* Slip: the test of strcmp's result is inverted to "never equal".
HashMatchNever(h1, h2) == FALSE

HashMatch(h1, h2) == h1 = h2

\* Slip: the hash is computed whether or not it is cached.
NeedsHashAlways(e) == TRUE

NeedsHash(e) == e.hash = NULL

\* Slip: >= for >, so that a candidate also goes in front of a head of its
\* own size.
InsertAtHeadOrEqual(m, head, size) == head = NULL \/ m.heap[head].size >= size

InsertAtHead(m, head, size) == head = NULL \/ m.heap[head].size > size

\* Slip (the eager variant): the entry placed at the head is hashed at once.
head_insert_eager(m, orig_ep, hash) ==
    LET m1 == generate_hash(m, orig_ep)
    IN  Emit([m1 EXCEPT !.heap[orig_ep].next = BucketHead(m.entry_list, hash),
                        !.entry_list = SetBucket(@, hash, orig_ep)],
             "link", m.heap[orig_ep].path, orig_ep)

head_insert(m, orig_ep, hash) ==
    Emit([m EXCEPT !.heap[orig_ep].next = BucketHead(m.entry_list, hash),
                   !.entry_list = SetBucket(@, hash, orig_ep)],
         "link", m.heap[orig_ep].path, orig_ep)

\* Slip: the entry is put at the head of the chain whatever its size.
insert_at_head_always(m, orig_ep, last_ep) ==
    LET hash == m.heap[orig_ep].size % HASH_SIZE
    IN  Emit([m EXCEPT !.heap[orig_ep].next = BucketHead(m.entry_list, hash),
                       !.entry_list = SetBucket(@, hash, orig_ep)],
             "link", m.heap[orig_ep].path, orig_ep)

insert_after(m, orig_ep, last_ep) ==
    Emit([m EXCEPT !.heap[orig_ep].next = m.heap[last_ep].next,
                   !.heap[last_ep].next = orig_ep],
         "link", m.heap[orig_ep].path, orig_ep)

\* The for loop of find_entry from the node ep on.  Returns [m, ret, last_ep].
RECURSIVE find_loop(_, _, _, _)
find_loop(m, orig_ep, ep, last_ep) ==
    IF ep = NULL \/ ~(m.heap[ep].size <= m.heap[orig_ep].size)
    THEN [m |-> m, ret |-> NULL, last_ep |-> last_ep]
    ELSE IF SizeMatch(m.heap[ep].size, m.heap[orig_ep].size)
         THEN LET m1 == VPrint(m, "v_size", m.heap[ep].path, 0)
                  m2 == IF NeedsHash(m1.heap[orig_ep])
                        THEN generate_hash(m1, orig_ep) ELSE m1
                  m3 == IF Exited(m2) THEN m2
                        ELSE IF NeedsHash(m2.heap[ep])
                             THEN generate_hash(m2, ep) ELSE m2
              IN  IF Exited(m3)
                  THEN [m |-> m3, ret |-> NULL, last_ep |-> last_ep]
                  ELSE IF HashMatch(m3.heap[ep].hash, m3.heap[orig_ep].hash)
                       THEN [m |-> VPrint(m3, "v_hash", 0, 0), ret |-> ep,
                             last_ep |-> last_ep]
                       ELSE find_loop(m3, orig_ep, m3.heap[ep].next, ep)
         ELSE find_loop(m, orig_ep, m.heap[ep].next, ep)

\* Slip: the quotient is taken instead of the remainder.
HashIndexQuotient(size) == size \div HASH_SIZE

HashIndex(size) == size % HASH_SIZE

\* Returns [m, ret]: ret is the original entry, or NULL when orig_ep was linked.
find_entry(m, orig_ep) ==
    LET hash == HashIndex(m.heap[orig_ep].size)
        m1 == VPrint(m, "v_search", m.heap[orig_ep].path, hash)
    IN  IF InsertAtHead(m1, BucketHead(m1.entry_list, hash), m1.heap[orig_ep].size)
        THEN [m |-> head_insert(m1, orig_ep, hash), ret |-> NULL]
        ELSE LET r == find_loop(m1, orig_ep, BucketHead(m1.entry_list, hash), NULL)
             IN  IF Exited(r.m) \/ r.ret # NULL
                 THEN [m |-> r.m, ret |-> r.ret]
                 ELSE [m |-> insert_after(r.m, orig_ep, r.last_ep), ret |-> NULL]

----------------------------------------------------------------------------
(* regular_file, process, scan_dups, main *)

\* Slip: the duplicate is reported and its entry is not released.
regular_file_no_free(m, ep) ==
    LET m1 == VPrint(m, "v_reg", m.heap[ep].path, m.heap[ep].size)
        r == find_entry(m1, ep)
    IN  IF Exited(r.m) THEN r.m
        ELSE IF r.ret # NULL
             THEN Emit(r.m, "DUP", r.m.heap[ep].path, r.m.heap[r.ret].path)
             ELSE r.m

\* Slip: the DUP line is printed under -v only.
regular_file_dup_if_verbose(m, ep) ==
    LET m1 == VPrint(m, "v_reg", m.heap[ep].path, m.heap[ep].size)
        r == find_entry(m1, ep)
    IN  IF Exited(r.m) THEN r.m
        ELSE IF r.ret # NULL
             THEN entry_free(VPrint(r.m, "DUP", r.m.heap[ep].path,
                                    r.m.heap[r.ret].path), ep)
             ELSE r.m

\* Slip: the entry found in the index is released, not the candidate.
regular_file_free_orig(m, ep) ==
    LET m1 == VPrint(m, "v_reg", m.heap[ep].path, m.heap[ep].size)
        r == find_entry(m1, ep)
    IN  IF Exited(r.m) THEN r.m
        ELSE IF r.ret # NULL
             THEN entry_free(Emit(r.m, "DUP", r.m.heap[ep].path,
                                  r.m.heap[r.ret].path), r.ret)
             ELSE r.m

regular_file(m, ep) ==
    LET m1 == VPrint(m, "v_reg", m.heap[ep].path, m.heap[ep].size)
        r == find_entry(m1, ep)
    IN  IF Exited(r.m) THEN r.m
        ELSE IF r.ret # NULL
             THEN entry_free(Emit(r.m, "DUP", r.m.heap[ep].path,
                                  r.m.heap[r.ret].path), ep)
             ELSE r.m

\* The head of scan_dups: the directory is opened; its entries follow one
\* ProcessEntry step each, and EndOfDir is readdir's NULL.
scan_dups(m, path) ==
    LET m1 == VPrint(m, "v_dir", path, 0)
    IN  IF m1.fault = "opendir"
        THEN Fail(m1, "err_opendir", path)
        ELSE [m1 EXCEPT !.depth = @ + 1, !.pc = "scan"]

\* The caller's stores into the fresh entry
fill_entry(m, ep, st) ==
    [m EXCEPT !.heap[ep].size = st.st_size,
              !.heap[ep].nlinks = st.st_nlink,
              !.heap[ep].device = st.st_dev,
              !.heap[ep].inode = st.st_ino]

\* Slip: zero-length files are not left out.
IsNonEmptyAlways(size) == TRUE

IsNonEmpty(size) == size > 0

\* process(path, name): f is what lstat reports for the entry; its path is
\* the ordinal cp.  The entry joins fs once lstat has succeeded.
process(m, f, junk) ==
    LET cp == Len(m.fs) + 1
        mp == Emit(m, "process", cp, 0)
    IN
    IF mp.fault = "malloc" THEN Fail(mp, "err_malloc", cp)
    ELSE IF mp.fault = "lstat" THEN Fail(mp, "err_lstat", cp)
    ELSE LET m0 == [mp EXCEPT !.fs = Append(@, f)]
             stbuf == Stat(m0, cp)
         IN  CASE f.kind = "reg" ->
                    IF IsNonEmpty(stbuf.st_size)
                    THEN LET a == entry_alloc(m0, cp, junk)
                         IN  IF Exited(a.m) THEN a.m
                             ELSE regular_file(fill_entry(a.m, a.ep, stbuf), a.ep)
                    ELSE m0
               [] f.kind = "dir" -> scan_dups(m0, cp)
               [] f.kind = "lnk" -> VPrint(m0, "v_lnk", cp, 0)
               [] OTHER -> Fail(m0, "err_type", cp)

\* Slip: a usage error leaves with the code of a runtime error.
usage_exit_1(m) == Exit(Emit(m, "usage", 0, 0), 1)

usage(m) == Exit(Emit(m, "usage", 0, 0), 2)

\* main(): nflag, vflag: the flags given (before any unknown flag);
\* badflag: an unknown flag is given; npos: number of positional arguments.
\* The "args" event records the command line: a = npos, b = 1 for badflag.
main(m, nflag, vflag, badflag, npos) ==
    LET m0 == Emit(m, "args", npos, IF badflag THEN 1 ELSE 0)
        m1 == [m0 EXCEPT !.verbose = IF vflag THEN 1 ELSE 0,
                         !.no_effect = IF nflag THEN 1 ELSE 0]
    IN  IF badflag THEN usage(m1)
        ELSE IF npos # 1 THEN usage(m1)
        ELSE scan_dups([m1 EXCEPT !.entry_list = NoEntries], 0)

----------------------------------------------------------------------------
(* The state machine *)

Machine(fault, files) ==
    [pc |-> pc, exit_code |-> exit_code, verbose |-> verbose,
     no_effect |-> no_effect, entry_list |-> entry_list, freelist |-> freelist,
     heap |-> heap, depth |-> depth, fs |-> files, trace |-> trace,
     fault |-> fault]

Store(m) ==
    /\ pc' = m.pc
    /\ exit_code' = m.exit_code
    /\ verbose' = m.verbose
    /\ no_effect' = m.no_effect
    /\ entry_list' = m.entry_list
    /\ freelist' = m.freelist
    /\ heap' = m.heap
    /\ depth' = m.depth
    /\ fs' = m.fs
    /\ trace' = m.trace

Init ==
    /\ pc = "main"
    /\ exit_code = 0
    /\ verbose = 0
    /\ no_effect = 0
    /\ entry_list = NoEntries
    /\ freelist = NULL
    /\ heap = << >>
    /\ depth = 0
    /\ fs = << >>
    /\ trace = << >>
    /\ held = {}

Main ==
    /\ pc = "main"
    /\ \E nflag \in BOOLEAN, vflag \in BOOLEAN, badflag \in BOOLEAN,
          npos \in 0..2, fault \in {"none", "opendir"} :
          Store(main(Machine(fault, fs), nflag, vflag, badflag, npos))
    /\ UNCHANGED held

\* The directory entries readdir can return next.
NextFiles ==
    {[kind |-> "reg", size |-> s, content |-> c] : s \in Sizes, c \in Contents}
    \cup {[kind |-> "reg", size |-> 0, content |-> 0]}
    \cup {[kind |-> k, size |-> 0, content |-> 0] : k \in Kinds \ {"reg"}}

\* The faults that can strike while the entry f is processed.
FaultsOf(f) ==
    {"none", "malloc", "lstat"}
    \cup (IF f.kind = "dir" THEN {"opendir"} ELSE {})
    \cup (IF f.kind = "reg" /\ f.size > 0
          THEN {"entry_alloc", "hash1", "hash2"} ELSE {})

\* One iteration of the readdir loop: readdir returns an entry other than
\* "." and "..", and process() handles it.
ProcessEntry ==
    /\ pc = "scan"
    /\ Len(fs) < MaxEntries
    /\ \E f \in NextFiles :
         \E fault \in FaultsOf(f) :
           \E junk \in (IF FreelistEmpty(freelist) THEN Junk ELSE {0}) :
              Store(process(Machine(fault, fs), f, junk))
    /\ UNCHANGED held

\* readdir returns NULL: closedir, and scan_dups returns; main then exits 0.
EndOfDir ==
    /\ pc = "scan"
    /\ depth' = depth - 1
    /\ IF depth = 1
       THEN pc' = "exit" /\ exit_code' = 0
       ELSE UNCHANGED <<pc, exit_code>>
    /\ UNCHANGED <<verbose, no_effect, entry_list, freelist, heap, fs, trace, held>>

Next == Main \/ ProcessEntry \/ EndOfDir

Spec == Init /\ [][Next]_vars

----------------------------------------------------------------------------
(* The allocator on its own: entry_alloc and entry_free called in any order *)
(* by a caller that holds the entries it was given.                         *)

IsAllocOp(e) == e.op \in {"malloc", "reuse", "free"}

AllocEvents == SelectSeq(trace, IsAllocOp)

\* Sizes of the files the caller allocates entries for (entry_alloc and
\* entry_free never read the size).
AllocSizes == {2}

InitAlloc ==
    /\ pc = "scan"
    /\ exit_code = 0
    /\ verbose = 0
    /\ no_effect = 0
    /\ entry_list = NoEntries
    /\ freelist = NULL
    /\ heap = << >>
    /\ depth = 1
    /\ fs = << >>
    /\ trace = << >>
    /\ held = {}

\* ep = entry_alloc(cp) for a new non-empty regular file
AllocCall ==
    /\ pc = "scan"
    /\ Len(AllocEvents) < MaxAllocOps
    /\ \E size \in AllocSizes, fault \in {"none", "entry_alloc"} :
         \E junk \in (IF FreelistEmpty(freelist) THEN Junk ELSE {0}) :
            LET f == [kind |-> "reg", size |-> size, content |-> 1]
                r == entry_alloc(Machine(fault, Append(fs, f)), Len(fs) + 1, junk)
            IN  /\ Store(r.m)
                /\ held' = IF Exited(r.m) THEN held ELSE held \cup {r.ep}

\* the caller's stores of size, nlinks, device and inode into the entry it
\* has just been given
FillCall ==
    /\ pc = "scan"
    /\ AllocEvents # << >>
    /\ LET last == AllocEvents[Len(AllocEvents)]
           ep == last.a
       IN  /\ last.op \in {"malloc", "reuse"}
           /\ heap[ep].size = 0
           /\ Store(fill_entry(Machine("none", fs), ep,
                               Stat(Machine("none", fs), heap[ep].path)))
    /\ UNCHANGED held

\* entry_free(ep)
FreeCall ==
    /\ pc = "scan"
    /\ Len(AllocEvents) < MaxAllocOps
    /\ \E ep \in held :
         /\ Store(entry_free(Machine("none", fs), ep))
         /\ held' = held \ {ep}

NextAlloc == AllocCall \/ FillCall \/ FreeCall

SpecAlloc == InitAlloc /\ [][NextAlloc]_vars

----------------------------------------------------------------------------
(* Vocabulary of the properties *)

\* The slots of the chain that starts at ep (fuel bounds the walk).
RECURSIVE ChainFrom(_, _)
ChainFrom(ep, fuel) ==
    IF ep = NULL \/ fuel = 0 THEN << >>
    ELSE <<ep>> \o ChainFrom(heap[ep].next, fuel - 1)

ChainOf(i) == ChainFrom(BucketHead(entry_list, i), Len(heap))

Buckets == 0..(HASH_SIZE - 1)

UsedBuckets == {i \in Buckets \cap DOMAIN entry_list : entry_list[i] # NULL}

SeqRange(q) == {q[k] : k \in 1..Len(q)}

LinkedSlots == UNION {SeqRange(ChainOf(i)) : i \in UsedBuckets}

\* Paths of the entries retained in the index
LinkedPaths == {heap[s].path : s \in LinkedSlots}

\* Non-empty regular files lstat'ed so far
RegFiles == {i \in 1..Len(fs) : fs[i].kind = "reg" /\ fs[i].size > 0}

TraceIdx(op) == {k \in 1..Len(trace) : trace[k].op = op}

\* The entry process() was last called for
LastProcessed ==
    LET ps == TraceIdx("process")
    IN  IF ps = {} THEN 0
        ELSE trace[CHOOSE k \in ps : \A j \in ps : j <= k].a

\* process() returned for entry i (the scan did not abort in it)
Completed(i) == ~(pc = "exit" /\ exit_code = 1 /\ LastProcessed = i)

SameFile(i, j) ==
    fs[i].size = fs[j].size /\ fs[i].content = fs[j].content

\* Earlier non-empty regular files with the size and content of file i
EarlierSame(i) == {j \in RegFiles : j < i /\ SameFile(i, j)}

MinOf(S) == CHOOSE x \in S : \A y \in S : x <= y

\* Positions in the trace of the DUP lines that name i as the duplicate
ReportsOf(i) == {k \in TraceIdx("DUP") : trace[k].a = i}

HashCalls(p) == {k \in TraceIdx("hash") : trace[k].a = p}

----------------------------------------------------------------------------
(* Properties *)

\* C1: a DUP line is printed for a non-empty regular file exactly when an
\* earlier file has its size and digest; there is exactly one such line, it
\* names the earliest such file as the original, and the duplicate is not
\* linked into the index.
C1_DupIffEarlierSame ==
    \A i \in RegFiles :
        Completed(i) =>
            /\ (ReportsOf(i) # {}) <=> (EarlierSame(i) # {})
            /\ Cardinality(ReportsOf(i)) <= 1
            /\ \A k \in ReportsOf(i) : trace[k].b = MinOf(EarlierSame(i))
            /\ ReportsOf(i) # {} => i \notin LinkedPaths

\* Files 2 and 3 are both copies of file 1: each is reported once, against
\* file 1, and only file 1 is retained.
C1_Witness ==
    /\ Len(fs) = 3
    /\ RegFiles = {1, 2, 3}
    /\ SameFile(1, 2) /\ SameFile(1, 3)
    /\ \E k \in ReportsOf(3) : trace[k].b = 1
    /\ ReportsOf(2) # {}
    /\ LinkedPaths = {1}

\* C2: no two entries retained in the index have both the same size and
\* the same content.
C2_UniqueContent ==
    \A s \in LinkedSlots, t \in LinkedSlots :
        (s # t /\ heap[s].size = heap[t].size)
            => fs[heap[s].path].content # fs[heap[t].path].content

\* A chain holds two entries of one size and different content, and a copy
\* of one of them was turned away.
C2_Witness ==
    /\ \E s \in LinkedSlots, t \in LinkedSlots :
          s # t /\ heap[s].size = heap[t].size
    /\ TraceIdx("DUP") # {}

\* C3: two files of equal size and different digest are never reported
\* against each other, and each is retained unless it duplicates an earlier
\* third file.
C3_SameSizeDifferentDigest ==
    \A i \in RegFiles, j \in RegFiles :
        (i < j /\ Completed(j) /\ fs[i].size = fs[j].size
               /\ fs[i].content # fs[j].content)
            => /\ \A k \in TraceIdx("DUP") :
                     ~(trace[k].a = j /\ trace[k].b = i)
                     /\ ~(trace[k].a = i /\ trace[k].b = j)
               /\ i \in LinkedPaths \/ EarlierSame(i) # {}
               /\ j \in LinkedPaths \/ EarlierSame(j) # {}

\* Files 1 and 3 have one size and different contents, another file came
\* between them, and both are retained.
C3_Witness ==
    /\ Len(fs) = 3
    /\ RegFiles = {1, 2, 3}
    /\ fs[1].size = fs[3].size /\ fs[1].content # fs[3].content
    /\ {1, 3} \subseteq LinkedPaths
    /\ Completed(3)

PairwiseDistinctSizes ==
    \A i \in RegFiles, j \in RegFiles : i # j => fs[i].size # fs[j].size

\* C4: while all files have pairwise distinct sizes, nothing is reported,
\* every file processed is retained and generate_hash is never called.
C4_DistinctSizes ==
    PairwiseDistinctSizes =>
        /\ TraceIdx("DUP") = {}
        /\ TraceIdx("hash") = {}
        /\ \A i \in RegFiles : Completed(i) => i \in LinkedPaths

\* Three files of three sizes, two of them in one bucket, all retained.
C4_Witness ==
    /\ PairwiseDistinctSizes
    /\ RegFiles = {1, 2, 3}
    /\ LinkedPaths = {1, 2, 3}
    /\ \E i \in UsedBuckets : Len(ChainOf(i)) = 2

\* C5: every bucket chain is sorted by non-decreasing size.
C5_ChainSorted ==
    \A i \in UsedBuckets :
        LET c == ChainOf(i)
        IN  \A k \in 1..(Len(c) - 1) : heap[c[k]].size <= heap[c[k + 1]].size

\* A chain of three whose middle entry is the file that came last: it went
\* in after an entry of its own size and before a larger one.
C5_Witness ==
    \E i \in UsedBuckets :
        LET c == ChainOf(i)
        IN  /\ Len(c) = 3
            /\ heap[c[2]].path = 3
            /\ heap[c[2]].size < heap[c[3]].size

\* C6: a lookup for a candidate whose size no entry of its bucket has calls
\* generate_hash for nobody.
C6_NoDigestForUniqueSize ==
    [][ ( /\ pc = "scan"
          /\ Len(fs') = Len(fs) + 1
          /\ LET f == fs'[Len(fs')]
             IN  /\ f.kind = "reg"
                 /\ f.size > 0
                 /\ \A s \in SeqRange(ChainOf(f.size % HASH_SIZE)) :
                        heap[s].size # f.size )
        => TraceIdx("hash")' = TraceIdx("hash") ]_vars

\* The second file went in front of a larger head, the third into an empty
\* bucket, and no digest has been computed.
C6_Witness ==
    /\ RegFiles = {1, 2, 3}
    /\ LinkedPaths = {1, 2, 3}
    /\ TraceIdx("hash") = {}
    /\ \E i \in UsedBuckets :
          LET c == ChainOf(i)
          IN  /\ Len(c) = 2
              /\ heap[c[1]].path = 2
              /\ heap[c[2]].path = 1
    /\ \E i \in UsedBuckets : ChainOf(i) = <<3>>

HashOnce == \A p \in 1..Len(fs) : Cardinality(HashCalls(p)) <= 1

HashStable ==
    \A s \in 1..Len(heap) :
        (heap[s].hash # NULL /\ heap'[s].path = heap[s].path)
            => heap'[s].hash = heap[s].hash

\* C7: generate_hash is called at most once for an entry, and a digest
\* that is present stays as it is for as long as the entry lives.
C7_DigestOnce == [](HashOnce) /\ [][HashStable]_vars

\* Three files of one size: file 1 was hashed when file 2 came, and was
\* compared again, by its cached digest, when file 3 came.
C7_Witness ==
    /\ RegFiles = {1, 2, 3}
    /\ fs[1].size = fs[2].size /\ fs[2].size = fs[3].size
    /\ Completed(3)
    /\ \A p \in {1, 2, 3} : Cardinality(HashCalls(p)) = 1
    /\ \E s \in LinkedSlots : heap[s].path = 1 /\ heap[s].hash = Digest(fs[1].content)

FreeSlots == SeqRange(ChainFrom(freelist, Len(heap)))

EventsOf(op, i) == {k \in TraceIdx(op) : trace[k].a = i}

\* C8: an entry whose processing step is over is either linked (and never
\* released), or it was reported as a duplicate, never linked, and released
\* to the free list in the same step, after its DUP line; it is released
\* exactly when it is reported.
C8_RetainedOrReleased ==
    \A i \in RegFiles :
        Completed(i) =>
            LET linked == i \in LinkedPaths
                frees == EventsOf("free", i)
                links == EventsOf("link", i)
                reps == ReportsOf(i)
            IN  /\ linked # (frees # {})
                /\ linked => (links # {} /\ frees = {})
                /\ (frees # {}) <=> (reps # {})
                /\ frees # {} =>
                      /\ links = {}
                      /\ Cardinality(frees) = 1
                      /\ \A k \in frees :
                            /\ \E r \in reps :
                                  /\ r < k
                                  /\ \A x \in r..k : trace[x].op # "process"
                            /\ \/ trace[k].b \in FreeSlots
                               \/ \E x \in TraceIdx("reuse") :
                                     x > k /\ trace[x].a = trace[k].b

\* File 1 is retained, file 2 was a duplicate and released, and file 3 is
\* retained in the slot file 2 gave back.
C8_Witness ==
    /\ RegFiles = {1, 2, 3}
    /\ LinkedPaths = {1, 3}
    /\ ReportsOf(2) # {}
    /\ EventsOf("free", 2) # {}
    /\ Len(heap) = 2
    /\ pc = "exit" /\ exit_code = 0

\* The allocations (malloc or reuse) among the allocator events after
\* position p
AllocsAfter(a, p) ==
    SelectSeq(SubSeq(a, p + 1, Len(a)), LAMBDA e : e.op # "free")

CountBefore(a, i, op) == Cardinality({x \in 1..(i - 1) : a[x].op = op})

\* The slot of an allocator event ("free" carries the path first)
SlotOf(e) == IF e.op = "free" THEN e.b ELSE e.a

CountSlotBefore(a, i, op, slot) ==
    Cardinality({x \in 1..(i - 1) : a[x].op = op /\ SlotOf(a[x]) = slot})

\* C9: after k releases in a row, each of the next k allocations takes a
\* released slot and asks for no new storage; new storage is asked for
\* only when the free list is empty.
C9_ReuseBeforeNew ==
    LET a == AllocEvents
    IN  /\ \A i \in 1..Len(a), k \in 1..Len(a) :
              (i + k - 1 <= Len(a) /\ \A x \in i..(i + k - 1) : a[x].op = "free")
                  => LET nxt == AllocsAfter(a, i + k - 1)
                     IN  \A y \in 1..Len(nxt) : y <= k => nxt[y].op = "reuse"
        /\ \A i \in 1..Len(a) :
              /\ a[i].op = "malloc"
                    => CountBefore(a, i, "free") = CountBefore(a, i, "reuse")
              /\ a[i].op = "reuse"
                    => CountSlotBefore(a, i, "free", a[i].a)
                         > CountSlotBefore(a, i, "reuse", a[i].a)
        /\ Len(heap) = CountBefore(a, Len(a) + 1, "malloc")

\* Two entries were released in a row and the next two allocations reused
\* their slots: the heap still has two slots.
C9_Witness ==
    LET a == AllocEvents
    IN  /\ Len(a) = 6
        /\ a[3].op = "free" /\ a[4].op = "free"
        /\ a[5].op = "reuse" /\ a[6].op = "reuse"
        /\ Len(heap) = 2
        /\ freelist = NULL

\* entry_alloc has just returned the entry ep (in the next state)
AllocReturned ==
    /\ Len(AllocEvents') = Len(AllocEvents) + 1
    /\ AllocEvents'[Len(AllocEvents')].op \in {"malloc", "reuse"}

ReturnedEntry == heap'[AllocEvents'[Len(AllocEvents')].a]

BasicsSet ==
    /\ ReturnedEntry.path = Len(fs')
    /\ ReturnedEntry.size = 0
    /\ ReturnedEntry.hash = NULL
    /\ ReturnedEntry.next = NULL

\* C10 as stated: entry_alloc returns an entry with the given path and
\* every other field zero, in a fresh slot and in a reused one.
C10_ZeroInitialized ==
    [][ AllocReturned =>
          /\ BasicsSet
          /\ ReturnedEntry.nlinks = 0
          /\ ReturnedEntry.device = 0
          /\ ReturnedEntry.inode = 0 ]_vars

\* C10 as amended: entry_alloc returns an entry with the given path, size
\* 0, no digest and no next link, in a fresh slot and in a reused one.
C10_BasicsInitialized == [][AllocReturned => BasicsSet]_vars

\* entry_alloc has just returned a reused slot: the basics are reset, and
\* the inode of the file the slot was used for before is still in it.
C10_Witness ==
    /\ AllocEvents # << >>
    /\ LET last == AllocEvents[Len(AllocEvents)]
           e == heap[last.a]
       IN  /\ last.op = "reuse"
           /\ e.path = Len(fs)
           /\ e.size = 0 /\ e.hash = NULL /\ e.next = NULL
           /\ e.inode # 0 /\ e.inode # e.path
           /\ last.a \in held

\* The chains of the index, bucket by bucket, as sequences of slots
Chains == [i \in UsedBuckets |-> ChainOf(i)]

\* The DUP lines printed so far, in order
IsDup(e) == e.op = "DUP"

Reports == SelectSeq(trace, IsDup)

\* The events the step added to the trace
NewEvents == SubSeq(trace', Len(trace) + 1, Len(trace'))

\* The Digest Provider failed in this step
HashFailed == \E k \in 1..Len(NewEvents) : NewEvents[k].op = "err_hash"

\* C11: when generate_hash fails during a lookup the scan exits with code
\* 1, the candidate is neither linked nor reported, the chains and the
\* reports are as they were before the lookup, and nothing happens after
\* the exit.
C11_DigestFailureAborts ==
    [][ /\ HashFailed =>
              /\ pc' = "exit" /\ exit_code' = 1
              /\ Chains' = Chains
              /\ Reports' = Reports
              /\ Len(fs') \notin LinkedPaths'
              /\ \A k \in 1..Len(trace') :
                    ~(trace'[k].op = "DUP" /\ trace'[k].a = Len(fs'))
        /\ pc = "exit" => UNCHANGED vars ]_vars

\* The scan has exited with code 1 on the failure to hash the retained
\* entry of file 1, after the digest of the candidate, file 3, was computed;
\* files 1 and 2 are retained as before.
C11_Witness ==
    /\ pc = "exit" /\ exit_code = 1
    /\ Len(fs) = 3
    /\ trace[Len(trace)].op = "err_hash"
    /\ trace[Len(trace)].a = 1
    /\ HashCalls(3) # {}
    /\ LinkedPaths = {1, 2}

\* The step lstat'ed a zero-length regular file or a symbolic link
SkippedEntry ==
    /\ Len(fs') = Len(fs) + 1
    /\ LET f == fs'[Len(fs')]
       IN  (f.kind = "reg" /\ f.size = 0) \/ f.kind = "lnk"

\* Only non-empty regular files are in the index, in the reports and in
\* the calls of the engine
OnlyNonEmptyRegular ==
    /\ \A s \in LinkedSlots : heap[s].size > 0 /\ heap[s].path \in RegFiles
    /\ \A k \in TraceIdx("DUP") : trace[k].a \in RegFiles /\ trace[k].b \in RegFiles
    /\ \A k \in TraceIdx("hash") \cup TraceIdx("link") \cup TraceIdx("free") :
          trace[k].a \in RegFiles

\* C12: processing a zero-length regular file or a symbolic link allocates
\* nothing, looks nothing up, hashes nothing, reports nothing and leaves the
\* chains and the free list as they are; no zero-length file is ever
\* retained or named in a report.
C12_OnlyNonEmptyRegularFiles ==
    /\ [](OnlyNonEmptyRegular)
    /\ [][ SkippedEntry =>
              /\ heap' = heap
              /\ entry_list' = entry_list
              /\ freelist' = freelist
              /\ pc' = pc
              /\ \A k \in 1..Len(NewEvents) :
                    NewEvents[k].op \in {"process", "v_lnk"} ]_vars

\* A retained file was followed by a zero-length file and by a symbolic
\* link (announced, the run being verbose): one slot, one retained entry.
C12_Witness ==
    /\ Len(fs) = 3
    /\ RegFiles = {1}
    /\ fs[2].kind = "reg" /\ fs[2].size = 0
    /\ fs[3].kind = "lnk"
    /\ trace[Len(trace)].op = "v_lnk"
    /\ Len(heap) = 1
    /\ LinkedPaths = {1}
    /\ freelist = NULL

\* The command line is valid: no unknown flag, one positional argument
ArgsValid == trace[1].op = "args" /\ trace[1].a = 1 /\ trace[1].b = 0

ErrOps ==
    {"err_malloc", "err_lstat", "err_alloc", "err_opendir", "err_hash", "err_type"}

\* A directory open, lstat, allocation or digest failed, or a node is
\* neither regular file, directory nor symbolic link
RuntimeFailure == \E k \in 1..Len(trace) : trace[k].op \in ErrOps

\* C13: the exit code is 2 exactly for an invalid command line, 1 exactly
\* for a runtime failure, 0 exactly when the whole tree was scanned without
\* error; a usage error comes before any scanning and prints no report.
C13_ExitCodes ==
    pc # "main" =>
        /\ (pc = "exit" /\ exit_code = 2) <=> ~ArgsValid
        /\ (pc = "exit" /\ exit_code = 1) <=> RuntimeFailure
        /\ (pc = "exit" /\ exit_code = 0)
              <=> (ArgsValid /\ ~RuntimeFailure /\ depth = 0)
        /\ ~ArgsValid =>
              /\ fs = << >>
              /\ Reports = << >>
              /\ \A k \in 1..Len(trace) : trace[k].op \in {"args", "usage"}
        /\ (\E i \in 1..Len(fs) : fs[i].kind = "other") => RuntimeFailure

\* A scan of a directory with a subdirectory that printed a report has
\* ended with exit code 0.
C13_Witness ==
    /\ pc = "exit" /\ exit_code = 0
    /\ \E i \in 1..Len(fs) : fs[i].kind = "dir"
    /\ Len(Reports) = 1
    /\ ArgsValid

\* The machine before main()
InitMachine ==
    [pc |-> "main", exit_code |-> 0, verbose |-> 0, no_effect |-> 0,
     entry_list |-> NoEntries, freelist |-> NULL, heap |-> << >>, depth |-> 0,
     fs |-> << >>, trace |-> << >>, fault |-> "none"]

\* A second run of the program, from its start, over the first k entries
\* of fs, with the flags given, in which every library call succeeds and
\* fresh storage is zero
RECURSIVE ReplayTo(_, _, _)
ReplayTo(k, nflag, vflag) ==
    IF k = 0
    THEN main(InitMachine, nflag, vflag, FALSE, 1)
    ELSE LET m == ReplayTo(k - 1, nflag, vflag)
         IN  IF Exited(m) THEN m ELSE process(m, fs[k], 0)

\* The entries of the chain from ep in the heap hp, without their links
RECURSIVE ChainIn(_, _, _)
ChainIn(hp, ep, fuel) ==
    IF ep = NULL \/ fuel = 0 THEN << >>
    ELSE <<[path |-> hp[ep].path, size |-> hp[ep].size, hash |-> hp[ep].hash]>>
         \o ChainIn(hp, hp[ep].next, fuel - 1)

\* The contents of the index, bucket by bucket
IndexOf(tbl, hp) ==
    [i \in {j \in DOMAIN tbl : tbl[j] # NULL} |-> ChainIn(hp, tbl[i], Len(hp))]

\* A library call failed in this run (what the files are is not a failure)
EnvFailure == \E k \in 1..Len(trace) : trace[k].op \in ErrOps \ {"err_type"}

\* C14: a run is determined by the sequence of files: its reports and its
\* chains are those of any other run over the same files with the same
\* flags, whatever fresh storage held and however the entries were spread
\* over directories.
C14_Deterministic ==
    (pc # "main" /\ ArgsValid /\ ~EnvFailure) =>
        LET r == ReplayTo(Len(fs), no_effect = 1, verbose = 1)
        IN  /\ Reports = SelectSeq(r.trace, IsDup)
            /\ IndexOf(entry_list, heap) = IndexOf(r.entry_list, r.heap)

\* A run over three files in which no library call failed has reported
\* one duplicate and retained two entries in one chain.
C14_Witness ==
    /\ Len(fs) = 3
    /\ RegFiles = {1, 2, 3}
    /\ ~EnvFailure
    /\ Len(Reports) = 1
    /\ \E i \in UsedBuckets : Len(ChainOf(i)) = 2

\* The lines printed under -v only
IsDiag(e) == e.op \in {"v_dir", "v_reg", "v_search", "v_size", "v_hash", "v_lnk"}

NotDiag(e) == ~IsDiag(e)

IsHash(e) == e.op = "hash"

\* C15: whatever -n and -v are, the run prints the DUP lines, hashes the
\* entries, builds the index and exits with the code of the run over the
\* same files without flags; -v only adds diagnostic lines.
C15_FlagsDoNotInfluence ==
    (pc # "main" /\ ArgsValid /\ ~EnvFailure) =>
        LET r == ReplayTo(Len(fs), FALSE, FALSE)
        IN  /\ Reports = SelectSeq(r.trace, IsDup)
            /\ SelectSeq(trace, IsHash) = SelectSeq(r.trace, IsHash)
            /\ IndexOf(entry_list, heap) = IndexOf(r.entry_list, r.heap)
            /\ Exited(r) => (pc = "exit" /\ exit_code = r.exit_code)
            /\ ~Exited(r) => (pc = "scan" \/ exit_code = 0)
            /\ SelectSeq(trace, NotDiag) = r.trace
            /\ verbose = 0 => trace = r.trace

\* A run with -n and -v has printed diagnostics, computed digests, printed
\* one DUP line and ended with exit code 0.
C15_Witness ==
    /\ verbose = 1 /\ no_effect = 1
    /\ pc = "exit" /\ exit_code = 0
    /\ Len(Reports) = 1
    /\ TraceIdx("v_hash") # {}
    /\ TraceIdx("v_dir") # {}

MaxOf(S) == CHOOSE x \in S : \A y \in S : y <= x

\* The chain c with the slot s put in after its k-th node
InsertedAt(c, k, s) == SubSeq(c, 1, k) \o <<s>> \o SubSeq(c, k + 1, Len(c))

\* The slots of the chain from ep in the heap hp
RECURSIVE SlotsIn(_, _, _)
SlotsIn(hp, ep, fuel) ==
    IF ep = NULL \/ fuel = 0 THEN << >>
    ELSE <<ep>> \o SlotsIn(hp, hp[ep].next, fuel - 1)

\* The chain of bucket i after the step
ChainAfter(i) == SlotsIn(heap', BucketHead(entry_list', i), Len(heap'))

\* The step linked a candidate: the "link" event it added
LinkEvents == {k \in 1..Len(NewEvents) : NewEvents[k].op = "link"}

\* Entries of one size are chained in the order they were met
EqualSizesInOrder ==
    \A i \in UsedBuckets :
        LET c == ChainOf(i)
        IN  \A x \in 1..Len(c), y \in 1..Len(c) :
                (x < y /\ heap[c[x]].size = heap[c[y]].size)
                    => heap[c[x]].path < heap[c[y]].path

\* C16: a candidate that is no duplicate is linked at one place: at the
\* head when the bucket is empty or its head is strictly larger, otherwise
\* right after the last node whose size is <= its own; the other entries
\* keep their order, and entries of one size are in the order met.
C16_InsertPosition ==
    /\ [](EqualSizesInOrder)
    /\ [][ \A e \in LinkEvents :
              LET s == NewEvents[e].b
                  size == fs'[NewEvents[e].a].size
                  i == size % HASH_SIZE
                  c == ChainOf(i)
                  le == {x \in 1..Len(c) : heap[c[x]].size <= size}
                  k == IF le = {} THEN 0 ELSE MaxOf(le)
              IN  /\ ChainAfter(i) = InsertedAt(c, k, s)
                  /\ (c = << >> \/ heap[c[1]].size > size) <=> (k = 0)
                  /\ Cardinality(LinkEvents) = 1 ]_vars

\* File 2 went in front of the larger file 1, and file 3, of the size of
\* file 2, went in between them.
C16_Witness ==
    \E i \in UsedBuckets :
        LET c == ChainOf(i)
        IN  /\ Len(c) = 3
            /\ heap[c[1]].path = 2 /\ heap[c[2]].path = 3 /\ heap[c[3]].path = 1
            /\ heap[c[1]].size = heap[c[2]].size
            /\ heap[c[2]].size < heap[c[3]].size

\* Every retained entry is in the bucket of its size
InOwnBucket ==
    /\ DOMAIN entry_list \subseteq Buckets
    /\ \A i \in UsedBuckets :
          \A s \in SeqRange(ChainOf(i)) : heap[s].size % HASH_SIZE = i

\* The step looked a candidate up: a non-empty regular file joined fs
LookupStep ==
    /\ Len(fs') = Len(fs) + 1
    /\ fs'[Len(fs')].kind = "reg"
    /\ fs'[Len(fs')].size > 0

\* C17: every entry linked in bucket i has size mod HASH_SIZE = i, and a
\* lookup touches the bucket of the candidate's size only: the other
\* chains and their entries stay as they are, and only entries of that
\* bucket (and the candidate) are hashed.
C17_OneBucketPerLookup ==
    /\ [](InOwnBucket)
    /\ [][ LookupStep =>
              LET b == fs'[Len(fs')].size % HASH_SIZE
              IN  /\ \A i \in ((DOMAIN entry_list) \cup (DOMAIN entry_list')) \ {b} :
                        /\ BucketHead(entry_list', i) = BucketHead(entry_list, i)
                        /\ ChainAfter(i) = ChainOf(i)
                        /\ \A s \in SeqRange(ChainOf(i)) : heap'[s] = heap[s]
                  /\ \A k \in 1..Len(NewEvents) :
                        NewEvents[k].op = "hash" =>
                            \/ NewEvents[k].a = Len(fs')
                            \/ NewEvents[k].b \in SeqRange(ChainOf(b)) ]_vars

\* Bucket 1 holds files of sizes 1 and HASH_SIZE + 1, the second of them
\* linked when bucket 2 already held file 1.
C17_Witness ==
    /\ UsedBuckets = {1, 2}
    /\ Len(ChainOf(2)) = 1
    /\ heap[ChainOf(2)[1]].path = 1
    /\ Len(ChainOf(1)) = 2
    /\ heap[ChainOf(1)[1]].size # heap[ChainOf(1)[2]].size

\* The scan is between two process() calls, or ended without a failure
BetweenSteps == ~(pc = "exit" /\ exit_code = 1)

\* Other non-empty regular files of the size of the entry in slot s
SameSizeOthers(s) ==
    {j \in RegFiles : j # heap[s].path /\ fs[j].size = heap[s].size}

LazyDigests ==
    BetweenSteps =>
        \A s \in LinkedSlots :
            (heap[s].hash # NULL) <=> (SameSizeOthers(s) # {})

\* C18: between file-processing steps a retained entry has its digest exactly
\* when another file of its size has been met, before or after it; one
\* lookup therefore computes at most two digests.
C18_DigestIffSameSizeSeen ==
    /\ [](LazyDigests)
    /\ [][ Cardinality({k \in 1..Len(NewEvents) : NewEvents[k].op = "hash"}) <= 2 ]_vars

\* Three files are retained: two of one size, hashed in the one lookup that
\* met the second, and one of a size of its own, without a digest.
C18_Witness ==
    /\ BetweenSteps
    /\ Len(fs) = 3
    /\ LinkedPaths = {1, 2, 3}
    /\ Cardinality(TraceIdx("hash")) = 2
    /\ Cardinality({s \in LinkedSlots : heap[s].hash # NULL}) = 2
    /\ \E s \in LinkedSlots : heap[s].hash = NULL /\ SameSizeOthers(s) = {}

\* The list that starts at ep visits no slot twice and ends at NULL
Acyclic(ep) ==
    LET c == ChainFrom(ep, Len(heap))
    IN  /\ Len(c) = Cardinality(SeqRange(c))
        /\ c # << >> => heap[c[Len(c)]].next = NULL

\* C19: the bucket chains and the free list are finite and acyclic, no
\* entry is in two of them or twice in one, every entry on the free list
\* has neither path nor digest, and the original named in a DUP line is a
\* retained entry that was never released.
C19_ListsWellFormed ==
    /\ Acyclic(freelist)
    /\ \A i \in UsedBuckets : Acyclic(BucketHead(entry_list, i))
    /\ \A i, j \in UsedBuckets :
          i # j => SeqRange(ChainOf(i)) \cap SeqRange(ChainOf(j)) = {}
    /\ LinkedSlots \cap FreeSlots = {}
    /\ \A s \in FreeSlots : heap[s].path = NULL /\ heap[s].hash = NULL
    /\ \A k \in TraceIdx("DUP") :
          /\ trace[k].b \in LinkedPaths
          /\ EventsOf("free", trace[k].b) = {}

\* A duplicate was reported and released while the one chain in use was
\* two entries long.
C19_Witness ==
    /\ TraceIdx("DUP") # {}
    /\ FreeSlots # {}
    /\ Cardinality(UsedBuckets) = 1
    /\ \E i \in UsedBuckets : Len(ChainOf(i)) = 2

\* C20: in the scan the free list never holds more than one slot, and the
\* slots obtained from malloc never outnumber the retained entries by more
\* than one.
C20_PoolAtMostOne ==
    /\ Cardinality(FreeSlots) <= 1
    /\ Len(ChainFrom(freelist, Len(heap))) <= 1
    /\ Cardinality(TraceIdx("malloc")) <= Cardinality(LinkedSlots) + 1
    /\ Len(heap) = Cardinality(TraceIdx("malloc"))

\* Two duplicates of one retained file: the second took the slot the first
\* had released, and released it again.
C20_Witness ==
    /\ Cardinality(TraceIdx("DUP")) = 2
    /\ TraceIdx("reuse") # {}
    /\ Cardinality(FreeSlots) = 1
    /\ Cardinality(LinkedSlots) = 1
    /\ Cardinality(TraceIdx("malloc")) = 2

====
